---- MODULE Spec2Model ----
(***************************************************************************)
(* Model of src/index.tsx: the portfolio page's content resolution         *)
(* (cache -> remote generation -> compiled-in default), the JSON fence     *)
(* parser, the view populator and the mobile menu.                         *)
(*                                                                         *)
(* Texts are sequences of lexemes (a lexeme stands for the characters it   *)
(* spells); JSON values are records of one uniform shape                   *)
(*   [t : kind, s : scalar payload, a : members]                           *)
(* so that values of different kinds can be compared.                      *)
(***************************************************************************)
EXTENDS Integers, Sequences, FiniteSets, TLC

VARIABLES
    cache,        \* localStorage entry 'portfolioContent': [present, text]
    dom,          \* biography text, skills grid cards, projects grid cards
    pc,           \* position of generatePortfolioContent in this page load
    log,          \* storage / remote / render operations of this page load, in order
    cache0,       \* history: the entry as this page load found it
    prevSrc,      \* history: what the page load before this one ended up showing
    cacheStep,    \* how step 1 (the cache check) ended in this page load
    failure,      \* what failed inside the remote try block in this page load
    rendered,     \* last populatePortfolioContent call that returned: [src, data]
    lastRemote,   \* history: dom and cache at the end of the last successful remote path
    sinceRemote,  \* history: a page load started after that successful remote path
    isActive,     \* hamburgerBtn has class 'is-active'
    ariaExpanded, \* hamburgerBtn attribute 'aria-expanded'
    navActive,    \* navLinks has class 'nav-active'
    menuEvent,    \* last menu listener that ran in this page load
    input,        \* text handed to parseGeminiJson (fence specification)
    output        \* what parseGeminiJson did with it (fence specification)

vars == <<cache, dom, pc, log, cache0, prevSrc, cacheStep, failure, rendered, lastRemote, sinceRemote,
          isActive, ariaExpanded, navActive, menuEvent, input, output>>

resolverVars == <<cache, dom, pc, log, cache0, prevSrc, cacheStep, failure, rendered, lastRemote, sinceRemote>>
menuVars == <<isActive, ariaExpanded, navActive, menuEvent>>
fenceVars == <<input, output>>

---------------------------------------------------------------------------
(* Lexemes *)

\* The three-backtick fence marker (a backtick cannot occur in a TLA+ string).
FENCE == "<fence>"
JSONWORD == "json"
QUOTE == "\""
SP == " "
NL == "\n"
LBRACE == "{"
RBRACE == "}"
LBRACK == "["
RBRACK == "]"
COLON == ":"
COMMA == ","
NULLWORD == "null"

\* String.prototype.trim and the regex class \s: both lexemes are white space.
WhiteSpace == {SP, NL}
\* JSON white space (space and line feed are both JSON white space).
JsonWhiteSpace == {SP, NL}
\* Raw control characters may not appear inside a JSON string literal.
ControlChars == {NL}
\* Number lexemes: the digit 1 and the literal 1e999; a run of them spells one number.
NumberLexemes == {"1", "1e999"}

---------------------------------------------------------------------------
(* JSON values *)

VUndefined == [t |-> "undefined", s |-> <<>>, a |-> <<>>]
VNull == [t |-> "null", s |-> <<>>, a |-> <<>>]
VNum(digits) == [t |-> "number", s |-> digits, a |-> <<>>]
VStr(s) == [t |-> "string", s |-> s, a |-> <<>>]
VArr(vals) == [t |-> "array", s |-> <<>>,
               a |-> [i \in 1..Len(vals) |-> [k |-> <<>>, val |-> vals[i]]]]
VObj(members) == [t |-> "object", s |-> <<>>, a |-> members]
Member(key, v) == [k |-> <<key>>, val |-> v]

\* The double a run of number lexemes denotes: with an exponent of 999 or more
\* it is beyond the largest double, and Number gives Infinity.
NumberValue(run) ==
    IF \E n \in 1..Len(run) : run[n] = "1e999" THEN <<"Infinity">> ELSE run

---------------------------------------------------------------------------
(* JSON.parse *)

ParseFail == [ok |-> FALSE, val |-> VUndefined, pos |-> 0]
ParseOk(v, p) == [ok |-> TRUE, val |-> v, pos |-> p]

RECURSIVE SkipWs(_, _)
SkipWs(t, i) ==
    IF i <= Len(t) /\ t[i] \in JsonWhiteSpace THEN SkipWs(t, i + 1) ELSE i

\* Position of the first QUOTE at or after i, or 0.
RECURSIVE FindQuote(_, _)
FindQuote(t, i) ==
    IF i > Len(t) THEN 0
    ELSE IF t[i] = QUOTE THEN i
    ELSE FindQuote(t, i + 1)

\* t[i] is an opening quote.
ParseString(t, i) ==
    LET j == FindQuote(t, i + 1) IN
    IF j = 0 THEN ParseFail
    ELSE LET body == SubSeq(t, i + 1, j - 1) IN
         IF \E n \in 1..Len(body) : body[n] \in ControlChars
         THEN ParseFail
         ELSE ParseOk(VStr(body), j + 1)

\* End of the run of number lexemes that starts at i.
RECURSIVE NumberEnd(_, _)
NumberEnd(t, i) ==
    IF i <= Len(t) /\ t[i] \in NumberLexemes THEN NumberEnd(t, i + 1) ELSE i

\* t[i] is a number lexeme; two exponents in one run spell no number.
ParseNumber(t, i) ==
    LET e == NumberEnd(t, i)
        run == SubSeq(t, i, e - 1)
    IN IF Cardinality({n \in 1..Len(run) : run[n] = "1e999"}) > 1
       THEN ParseFail
       ELSE ParseOk(VNum(NumberValue(run)), e)

\* A later member with the same key replaces the value and keeps the place.
PutMember(members, key, v) ==
    IF \E n \in 1..Len(members) : members[n].k = key
    THEN [n \in 1..Len(members) |->
            IF members[n].k = key THEN [k |-> key, val |-> v] ELSE members[n]]
    ELSE Append(members, [k |-> key, val |-> v])

RECURSIVE ParseValue(_, _), ParseElements(_, _, _), ParseMembers(_, _, _)

ParseValue(t, i) ==
    LET j == SkipWs(t, i) IN
    IF j > Len(t) THEN ParseFail
    ELSE IF t[j] = LBRACE THEN ParseMembers(t, j + 1, <<>>)
    ELSE IF t[j] = LBRACK THEN ParseElements(t, j + 1, <<>>)
    ELSE IF t[j] = QUOTE THEN ParseString(t, j)
    ELSE IF t[j] \in NumberLexemes THEN ParseNumber(t, j)
    ELSE IF t[j] = NULLWORD THEN ParseOk(VNull, j + 1)
    ELSE ParseFail

\* After "[" (acc empty) or after "," (acc not empty).
ParseElements(t, i, acc) ==
    LET j == SkipWs(t, i) IN
    IF j > Len(t) THEN ParseFail
    ELSE IF t[j] = RBRACK /\ acc = <<>> THEN ParseOk(VArr(acc), j + 1)
    ELSE LET r == ParseValue(t, j) IN
         IF ~r.ok THEN ParseFail
         ELSE LET n == SkipWs(t, r.pos) IN
              IF n > Len(t) THEN ParseFail
              ELSE IF t[n] = COMMA THEN ParseElements(t, n + 1, Append(acc, r.val))
              ELSE IF t[n] = RBRACK THEN ParseOk(VArr(Append(acc, r.val)), n + 1)
              ELSE ParseFail

\* After "{" (acc empty) or after "," (acc not empty).
ParseMembers(t, i, acc) ==
    LET j == SkipWs(t, i) IN
    IF j > Len(t) THEN ParseFail
    ELSE IF t[j] = RBRACE /\ acc = <<>> THEN ParseOk(VObj(acc), j + 1)
    ELSE IF t[j] # QUOTE THEN ParseFail
    ELSE LET key == ParseString(t, j) IN
         IF ~key.ok THEN ParseFail
         ELSE LET c == SkipWs(t, key.pos) IN
              IF c > Len(t) \/ t[c] # COLON THEN ParseFail
              ELSE LET r == ParseValue(t, c + 1) IN
                   IF ~r.ok THEN ParseFail
                   ELSE LET n == SkipWs(t, r.pos)
                            more == PutMember(acc, key.val.s, r.val)
                        IN IF n > Len(t) THEN ParseFail
                           ELSE IF t[n] = COMMA THEN ParseMembers(t, n + 1, more)
                           ELSE IF t[n] = RBRACE THEN ParseOk(VObj(more), n + 1)
                           ELSE ParseFail

\* JSON.parse(text): [ok, val]; ok = FALSE stands for the SyntaxError thrown.
JSONparse(t) ==
    LET r == ParseValue(t, 1) IN
    IF r.ok /\ SkipWs(t, r.pos) = Len(t) + 1
    THEN [ok |-> TRUE, val |-> r.val]
    ELSE [ok |-> FALSE, val |-> VUndefined]

---------------------------------------------------------------------------
(* JSON.stringify *)

RECURSIVE JSONstringify(_), StringifyItems(_, _, _)

\* The members from n on, comma separated; keyed tells object from array.
StringifyItems(a, n, keyed) ==
    IF n > Len(a) THEN <<>>
    ELSE (IF n > 1 THEN <<COMMA>> ELSE <<>>)
         \o (IF keyed THEN <<QUOTE>> \o a[n].k \o <<QUOTE, COLON>> ELSE <<>>)
         \o JSONstringify(a[n].val)
         \o StringifyItems(a, n + 1, keyed)

\* Of a value JSON.parse produced. A non-finite number is written as null.
JSONstringify(v) ==
    IF v.t = "number" THEN (IF v.s = <<"Infinity">> THEN <<NULLWORD>> ELSE v.s)
    ELSE IF v.t = "string" THEN <<QUOTE>> \o v.s \o <<QUOTE>>
    ELSE IF v.t = "array" THEN <<LBRACK>> \o StringifyItems(v.a, 1, FALSE) \o <<RBRACK>>
    ELSE IF v.t = "object" THEN <<LBRACE>> \o StringifyItems(v.a, 1, TRUE) \o <<RBRACE>>
    ELSE <<NULLWORD>>

---------------------------------------------------------------------------
(* parseGeminiJson *)

RECURSIVE TrimLeft(_), TrimRight(_)
TrimLeft(t) == IF t # <<>> /\ Head(t) \in WhiteSpace THEN TrimLeft(Tail(t)) ELSE t
TrimRight(t) ==
    IF t # <<>> /\ t[Len(t)] \in WhiteSpace THEN TrimRight(SubSeq(t, 1, Len(t) - 1)) ELSE t
Trim(t) == TrimRight(TrimLeft(t))

\* First position at or after i where a lexeme x stands, or 0.
RECURSIVE FirstAt(_, _, _)
FirstAt(t, i, x) ==
    IF i > Len(t) THEN 0
    ELSE IF t[i] = x THEN i
    ELSE FirstAt(t, i + 1, x)

\* First position at or after i where the opening marker ```json stands, or 0.
RECURSIVE FirstOpening(_, _)
FirstOpening(t, i) ==
    IF i >= Len(t) THEN 0
    ELSE IF t[i] = FENCE /\ t[i + 1] = JSONWORD THEN i
    ELSE FirstOpening(t, i + 1)

\* The same pattern without ^ and $: the first fenced block anywhere in the text.
FenceMatchUnanchored(t) ==
    LET o == FirstOpening(t, 1)
        c == IF o = 0 THEN 0 ELSE FirstAt(t, o + 2, FENCE)
    IN IF o # 0 /\ c # 0
       THEN [matched |-> TRUE, group |-> Trim(SubSeq(t, o + 2, c - 1))]
       ELSE [matched |-> FALSE, group |-> <<>>]

\* trimmedText.match(/^```json\s*([\s\S]*?)\s*```$/): [matched, group].
\* ^ and $ anchor the whole text; the group is lazy, so the white space on
\* both of its sides goes to the \s* around it.
FenceMatch(t) ==
    IF Len(t) >= 3 /\ t[1] = FENCE /\ t[2] = JSONWORD /\ t[Len(t)] = FENCE
    THEN [matched |-> TRUE, group |-> Trim(SubSeq(t, 3, Len(t) - 1))]
    ELSE [matched |-> FALSE, group |-> <<>>]

parseGeminiJson(text) ==
    LET trimmedText == Trim(text)
        match == FenceMatch(trimmedText)
        jsonString == IF match.matched THEN match.group ELSE trimmedText
    IN JSONparse(jsonString)

---------------------------------------------------------------------------
(* The view: what populatePortfolioContent reads and builds *)

\* data.key for a value other than null and undefined; the keys read by the
\* page are own properties of objects only.
Get(v, key) ==
    IF v.t = "object" /\ \E n \in 1..Len(v.a) : v.a[n].k = <<key>>
    THEN v.a[CHOOSE n \in 1..Len(v.a) : v.a[n].k = <<key>>].val
    ELSE VUndefined

\* Reading a property of null or undefined throws a TypeError.
Readable(v) == v.t \notin {"null", "undefined"}

\* for (const x of v): arrays and strings are iterable, anything else throws.
Iterable(v) == v.t \in {"array", "string"}
Items(v) ==
    IF v.t = "array" THEN [i \in 1..Len(v.a) |-> v.a[i].val]
    ELSE [i \in 1..Len(v.s) |-> VStr(<<v.s[i]>>)]

\* `${v}`: the string a template literal puts in the markup.
RECURSIVE ToStr(_), JoinItems(_, _)
JoinItems(a, n) ==
    IF n > Len(a) THEN <<>>
    ELSE (IF n > 1 THEN <<COMMA>> ELSE <<>>)
         \o (IF Readable(a[n].val) THEN ToStr(a[n].val) ELSE <<>>)
         \o JoinItems(a, n + 1)
ToStr(v) ==
    IF v.t \in {"string", "number"} THEN v.s
    ELSE IF v.t = "array" THEN JoinItems(v.a, 1)
    ELSE IF v.t = "object" THEN <<"[object Object]">>
    ELSE <<v.t>>

\* element.textContent = v: null and undefined give the empty text.
TextContent(v) == IF Readable(v) THEN ToStr(v) ELSE <<>>

\* project.liveUrl ? ... : '' (no number these lexemes spell is 0 or NaN).
Truthy(v) ==
    IF v.t = "string" THEN v.s # <<>>
    ELSE Readable(v)

SkillCard(skill) ==
    [h3 |-> ToStr(Get(skill, "skillName")), p |-> ToStr(Get(skill, "description"))]

ProjectCard(project) ==
    LET technologies == Get(project, "technologies")
        liveUrl == Get(project, "liveUrl")
    IN [h3 |-> ToStr(Get(project, "projectName")),
        p |-> ToStr(Get(project, "description")),
        tech |-> [i \in 1..Len(technologies.a) |-> ToStr(technologies.a[i].val)],
        github |-> ToStr(Get(project, "githubUrl")),
        live |-> IF Truthy(liveUrl) THEN [shown |-> TRUE, href |-> ToStr(liveUrl)]
                 ELSE [shown |-> FALSE, href |-> <<>>]]

\* The skills loop from item n on: the cards appended, and whether it threw.
RECURSIVE SkillCards(_, _, _)
SkillCards(items, n, acc) ==
    IF n > Len(items) THEN [cards |-> acc, threw |-> FALSE]
    ELSE IF ~Readable(items[n]) THEN [cards |-> acc, threw |-> TRUE]
    ELSE SkillCards(items, n + 1, Append(acc, SkillCard(items[n])))

\* The projects loop; project.technologies.map exists on arrays only.
RECURSIVE ProjectCards(_, _, _)
ProjectCards(items, n, acc) ==
    IF n > Len(items) THEN [cards |-> acc, threw |-> FALSE]
    ELSE IF ~Readable(items[n]) \/ Get(items[n], "technologies").t # "array"
         THEN [cards |-> acc, threw |-> TRUE]
    ELSE ProjectCards(items, n + 1, Append(acc, ProjectCard(items[n])))

\* The page's markup before any script ran: placeholders in the three containers.
InitialDom ==
    [biography |-> <<"placeholder">>,
     skills |-> <<[h3 |-> <<"placeholder">>, p |-> <<>>]>>,
     projects |-> <<[h3 |-> <<"placeholder">>, p |-> <<>>, tech |-> <<>>, github |-> <<>>,
                     live |-> [shown |-> FALSE, href |-> <<>>]]>>]

\* The loops of a populator that forgets innerHTML = '' and appends to what is there.
PopulateFrom(d, data, skills0, projects0) ==
    IF ~Readable(data) THEN [dom |-> d, threw |-> TRUE]
    ELSE LET d1 == [d EXCEPT !.biography = TextContent(Get(data, "biography")),
                             !.skills = skills0]
             skills == Get(data, "skills")
         IN IF ~Iterable(skills) THEN [dom |-> d1, threw |-> TRUE]
            ELSE LET sk == SkillCards(Items(skills), 1, skills0)
                     d2 == [d1 EXCEPT !.skills = sk.cards]
                 IN IF sk.threw THEN [dom |-> d2, threw |-> TRUE]
                    ELSE LET d3 == [d2 EXCEPT !.projects = projects0]
                             projects == Get(data, "projects")
                         IN IF ~Iterable(projects) THEN [dom |-> d3, threw |-> TRUE]
                            ELSE LET pr == ProjectCards(Items(projects), 1, projects0)
                                 IN [dom |-> [d3 EXCEPT !.projects = pr.cards],
                                     threw |-> pr.threw]

populateNoClear(d, data) == PopulateFrom(d, data, d.skills, d.projects)

\* populatePortfolioContent(data) on a page whose three containers exist:
\* [dom, threw], dom being the page as the call leaves it, also when it throws.
populatePortfolioContent(d, data) == PopulateFrom(d, data, <<>>, <<>>)

---------------------------------------------------------------------------
(* Content objects *)

SkillV(skillName, description) ==
    VObj(<<Member("skillName", VStr(<<skillName>>)),
           Member("description", VStr(<<description>>))>>)

ProjectV(projectName, description, technologies, githubUrl, liveUrl) ==
    VObj(<<Member("projectName", VStr(<<projectName>>)),
           Member("description", VStr(<<description>>)),
           Member("technologies", VArr([i \in 1..Len(technologies) |-> VStr(<<technologies[i]>>)])),
           Member("githubUrl", VStr(<<githubUrl>>)),
           Member("liveUrl", VStr(<<liveUrl>>))>>)

defaultPortfolioData ==
    VObj(<<
      Member("biography", VStr(<<"As a skilled Software Developer with a background in ICT and Applications Development, I specialize in C#, HTML, SQL, and cloud computing. I am passionate about leveraging technology to solve complex problems and have recently expanded my expertise into the exciting field of Artificial Intelligence. I am always eager to learn and apply new skills to create innovative and efficient solutions.">>)),
      Member("skills", VArr(<<
        SkillV("C# & .NET", "Building robust and scalable server-side applications."),
        SkillV("HTML, CSS & JavaScript", "Creating responsive and interactive user interfaces."),
        SkillV("SQL Databases", "Designing and managing relational databases for optimal performance."),
        SkillV("Cloud Computing", "Deploying and managing applications on cloud platforms like Azure and AWS."),
        SkillV("AI & Machine Learning", "Exploring and implementing AI models to build intelligent features."),
        SkillV("Agile Methodologies", "Collaborating in fast-paced environments to deliver quality software.")>>)),
      Member("projects", VArr(<<
        ProjectV("AI Study Buddy",
                 "A RAG-powered chatbot providing answers from a specialized knowledge base. It uses vector embeddings to find relevant document chunks and Gemini to generate context-aware, accurate responses.",
                 <<"Python", "Gemini API", "LangChain", "VectorDB">>,
                 "https://github.com/Nompil/ai-study-buddy",
                 "https://capeitinitiative-my.sharepoint.com/:u:/g/personal/neliswa_mbele_capaciti_org_za/EeP6VWFug-NJk9_H73HY3-YBhyXqZr_w9b0e1R2EJQte6Q?e=v845FL"),
        ProjectV("Sentiment Analysis Dashboard",
                 "An interactive dashboard that analyzes sentiment in text data, enabling users to understand emotional tone in customer reviews, social media posts, or other text content.",
                 <<"Python", "Flask", "Chart.js", "NLTK">>,
                 "https://github.com/skelletor147/sentimental-analysis-dashboard",
                 "https://capeitinitiative-my.sharepoint.com/:u:/g/personal/neliswa_mbele_capaciti_org_za/ETbKaRdx1c5Do104LYkKIGsBvbI_z9NVhMIkbQwtzaQedA?e=LdGXyO"),
        ProjectV("Intelligent Resume Builder",
                 "An intelligent resume generation system that creates customized, ATS-friendly resumes based on user inputs.",
                 <<"React", "Node.js", "Gemini API", "PDFKit">>,
                 "https://github.com/Mphefemulo/Masikhule.git",
                 "https://masikhule-solutions.github.io/ai-resume-builder/")>>))>>)

\* The responseSchema of the generation request: the shape content is meant to have.
IsString(v) == v.t = "string"
SkillShape(v) ==
    /\ v.t = "object"
    /\ IsString(Get(v, "skillName"))
    /\ IsString(Get(v, "description"))
ProjectShape(v) ==
    /\ v.t = "object"
    /\ IsString(Get(v, "projectName"))
    /\ IsString(Get(v, "description"))
    /\ Get(v, "technologies").t = "array"
    /\ \A n \in 1..Len(Get(v, "technologies").a) : IsString(Get(v, "technologies").a[n].val)
    /\ IsString(Get(v, "githubUrl"))
    /\ IsString(Get(v, "liveUrl"))
MatchesShape(v) ==
    /\ v.t = "object"
    /\ IsString(Get(v, "biography"))
    /\ Get(v, "skills").t = "array"
    /\ \A n \in 1..Len(Get(v, "skills").a) : SkillShape(Get(v, "skills").a[n].val)
    /\ Get(v, "projects").t = "array"
    /\ \A n \in 1..Len(Get(v, "projects").a) : ProjectShape(Get(v, "projects").a[n].val)

---------------------------------------------------------------------------
(* Texts the cache may hold and the remote call may return *)

Q(s) == <<QUOTE, s, QUOTE>>
KV(key, text) == Q(key) \o <<COLON>> \o text
SkillText(n, d) ==
    <<LBRACE>> \o KV("skillName", Q(n)) \o <<COMMA>> \o KV("description", Q(d)) \o <<RBRACE>>
ContentText(biography, skills, projects) ==
    <<LBRACE>> \o KV("biography", biography) \o <<COMMA>>
    \o KV("skills", <<LBRACK>> \o skills \o <<RBRACK>>) \o <<COMMA>>
    \o KV("projects", <<LBRACK>> \o projects \o <<RBRACK>>) \o <<RBRACE>>

\* {"biography":"B","skills":[{"skillName":"S","description":"D"}],"projects":[]}
ScenarioText == ContentText(Q("B"), SkillText("S", "D"), <<>>)
\* One project with a live demo and one whose liveUrl is the empty string.
ProjectsText ==
    ContentText(Q("B2"), SkillText("S2", "D2"),
        <<LBRACE>> \o KV("projectName", Q("P")) \o <<COMMA>> \o KV("description", Q("PD"))
        \o <<COMMA>> \o KV("technologies", <<LBRACK>> \o Q("T1") \o <<COMMA>> \o Q("T2") \o <<RBRACK>>)
        \o <<COMMA>> \o KV("githubUrl", Q("G")) \o <<COMMA>> \o KV("liveUrl", Q("L")) \o <<RBRACE>>
        \o <<COMMA>>
        \o <<LBRACE>> \o KV("projectName", Q("P2")) \o <<COMMA>> \o KV("description", Q("PD2"))
        \o <<COMMA>> \o KV("technologies", <<LBRACK, RBRACK>>)
        \o <<COMMA>> \o KV("githubUrl", Q("G2")) \o <<COMMA>> \o KV("liveUrl", <<QUOTE, QUOTE>>) \o <<RBRACE>>)
\* The scenario's content inside a fence that wraps the whole response.
FencedText == <<FENCE, JSONWORD, NL>> \o ScenarioText \o <<NL, FENCE, NL>>
\* {not json
NotJsonText == <<LBRACE, "not", SP, JSONWORD>>
\* null: parses, and reading data.biography throws
NullText == <<NULLWORD>>
\* A second skill that is null: the first card is appended, then the loop throws.
PartialText == ContentText(Q("B3"), SkillText("S3", "D3") \o <<COMMA, NULLWORD>>, <<>>)
\* No biography: not the shape, yet nothing throws when it is rendered.
NoBiographyText ==
    <<LBRACE>> \o KV("skills", <<LBRACK, RBRACK>>) \o <<COMMA>>
    \o KV("projects", <<LBRACK, RBRACK>>) \o <<RBRACE>>
\* A biography that is a number too large for a double.
HugeBiographyText == ContentText(<<"1e999">>, <<>>, <<>>)
\* A skill that is a number too large for a double.
HugeSkillText == ContentText(Q("B4"), <<"1e999">>, <<>>)

RemoteTexts ==
    {ScenarioText, ProjectsText, FencedText, NotJsonText, NullText, PartialText,
     NoBiographyText, HugeBiographyText, HugeSkillText}

\* What storage may hold when the first page load starts (the empty text included).
CacheTexts ==
    {<<>>, ScenarioText, ProjectsText, NotJsonText, NullText, PartialText, NoBiographyText}

\* The remote call rejects (network or API error), or resolves with a text.
RemoteReplies ==
    {[kind |-> "error", text |-> <<>>]} \cup {[kind |-> "text", text |-> t] : t \in RemoteTexts}

---------------------------------------------------------------------------
(* generatePortfolioContent *)

Absent == [present |-> FALSE, text |-> <<>>]
Stored(t) == [present |-> TRUE, text |-> t]

NoData == [src |-> "none", data |-> VUndefined]

\* The try / catch around the cached text, for a text getItem returned that is
\* not empty: parse it and render it inside the try; the catch removes the entry.
CacheTry(c, d) ==
    LET Caught(outcome, page, events) ==
            [outcome |-> outcome, returned |-> FALSE, escaped |-> FALSE,
             cache |-> Absent, dom |-> page, rendered |-> NoData,
             log |-> <<"getItem">> \o events \o <<"removeItem">>]
        Render(data, r) ==
            IF r.threw
            THEN Caught("renderThrew", r.dom, <<"populateThrew">>)
            ELSE [outcome |-> "hit", returned |-> TRUE, escaped |-> FALSE,
                  cache |-> c, dom |-> r.dom, rendered |-> [src |-> "cache", data |-> data],
                  log |-> <<"getItem", "populate">>]
        Parse(parsed) ==
            IF ~parsed.ok
            THEN Caught("parseThrew", d, <<>>)
            ELSE Render(parsed.val, populatePortfolioContent(d, parsed.val))
    IN Parse(JSONparse(c.text))

\* getItem gave null (no entry) or the empty string: if (cachedContent) is false.
CacheSkipped(c, d) ==
    [outcome |-> IF c.present THEN "empty" ELSE "absent",
     returned |-> FALSE, escaped |-> FALSE, cache |-> c, dom |-> d, rendered |-> NoData,
     log |-> <<"getItem">>]

Falsy(c) == ~c.present \/ c.text = <<>>

\* A hit that forgets to return and goes on to the remote call.
CacheStepNoReturn(c, d) ==
    IF Falsy(c) THEN CacheSkipped(c, d)
    ELSE [CacheTry(c, d) EXCEPT !.returned = FALSE]

\* A catch that logs the error and forgets removeItem.
CacheStepNoRemove(c, d) ==
    IF Falsy(c) THEN CacheSkipped(c, d)
    ELSE LET r == CacheTry(c, d) IN
         [r EXCEPT !.cache = c, !.log = SelectSeq(r.log, LAMBDA e : e # "removeItem")]

\* The render placed after the try block: what it throws is not caught.
CacheStepRenderOutsideTry(c, d) ==
    IF Falsy(c) THEN CacheSkipped(c, d)
    ELSE LET r == CacheTry(c, d) IN
         IF r.outcome = "renderThrew"
         THEN [r EXCEPT !.escaped = TRUE, !.cache = c, !.log = <<"getItem", "populateThrew">>]
         ELSE r

\* removeItem in a finally block: the entry goes after a hit too.
CacheStepRemoveAlways(c, d) ==
    IF Falsy(c) THEN CacheSkipped(c, d)
    ELSE LET r == CacheTry(c, d) IN
         IF r.outcome = "hit"
         THEN [r EXCEPT !.cache = Absent, !.log = Append(r.log, "removeItem")]
         ELSE r

\* Step 1: read the entry, and use it when it is there and not empty.
CacheStep(c, d) ==
    IF Falsy(c) THEN CacheSkipped(c, d) ELSE CacheTry(c, d)

\* The body of the remote try block once the call has settled: parse the
\* response text, render, then store. quota: setItem throws (storage is full).
RemoteTry(c, d, reply, quota) ==
    LET Threw(kind, page, events) ==
            [failure |-> kind, cache |-> c, dom |-> page, rendered |-> NoData, log |-> events]
        Render(data, r) ==
            IF r.threw THEN Threw("renderThrew", r.dom, <<"populateThrew">>)
            ELSE IF quota THEN Threw("setItemThrew", r.dom, <<"populate", "setItemThrew">>)
            ELSE [failure |-> "none", cache |-> Stored(JSONstringify(data)), dom |-> r.dom,
                  rendered |-> [src |-> "remote", data |-> data],
                  log |-> <<"populate", "setItem">>]
        Parse(parsed) ==
            IF ~parsed.ok THEN Threw("parseError", d, <<>>)
            ELSE Render(parsed.val, populatePortfolioContent(d, parsed.val))
    IN IF reply.kind = "error" THEN Threw("remoteThrew", d, <<>>)
       ELSE Parse(parseGeminiJson(reply.text))

\* The catch block: render the compiled-in default over whatever is on the page.
Fallback(t) ==
    [t EXCEPT !.dom = populatePortfolioContent(t.dom, defaultPortfolioData).dom,
              !.rendered = [src |-> "default", data |-> defaultPortfolioData],
              !.log = Append(t.log, "populateDefault")]

Settled(f, escaped) ==
    [failure |-> f.failure, cache |-> f.cache, dom |-> f.dom, rendered |-> f.rendered,
     log |-> f.log, escaped |-> escaped]

\* A remote path without the catch: a failure escapes the resolver.
RemoteStepNoCatch(c, d, reply, quota) ==
    LET Uncaught(t) == Settled(t, t.failure # "none")
    IN Uncaught(RemoteTry(c, d, reply, quota))

\* Steps 2 to 4 after the await: the try block, and the catch when it threw.
RemoteStep(c, d, reply, quota) ==
    LET Catch(t) == IF t.failure = "none" THEN Settled(t, FALSE)
                    ELSE Settled(Fallback(t), FALSE)
    IN Catch(RemoteTry(c, d, reply, quota))

---------------------------------------------------------------------------
(* The mobile menu *)

\* A listener that writes the state before the toggle into aria-expanded.
HamburgerToggleStaleAria(m) ==
    [isActive |-> ~m.isActive,
     ariaExpanded |-> IF m.isActive THEN "true" ELSE "false",
     navActive |-> ~m.navActive]

\* hamburgerBtn's click listener.
HamburgerToggle(m) ==
    [isActive |-> ~m.isActive,
     ariaExpanded |-> IF ~m.isActive THEN "true" ELSE "false",
     navActive |-> ~m.navActive]

\* closeMenu
closeMenu(m) == [isActive |-> FALSE, ariaExpanded |-> "false", navActive |-> FALSE]

Menu == [isActive |-> isActive, ariaExpanded |-> ariaExpanded, navActive |-> navActive]

\* aria-expanded in the markup of the closed menu: not set, or "false".
MarkupAria == {"absent", "false"}

---------------------------------------------------------------------------
(* The page: one load after another over the same storage *)

NotCalled == [called |-> FALSE, ok |-> FALSE, val |-> VUndefined]
NoRemote == [set |-> FALSE, dom |-> InitialDom, cache |-> Absent]

Init ==
    /\ cache \in {Absent} \cup {Stored(t) : t \in CacheTexts}
    /\ dom = InitialDom
    /\ pc = "unloaded"
    /\ log = <<>>
    /\ cache0 = cache
    /\ prevSrc = "none"
    /\ cacheStep = "none"
    /\ failure = "none"
    /\ rendered = NoData
    /\ lastRemote = NoRemote
    /\ sinceRemote = FALSE
    /\ isActive = FALSE
    /\ ariaExpanded \in MarkupAria
    /\ navActive = FALSE
    /\ menuEvent = "none"
    /\ input = <<>>
    /\ output = NotCalled

\* The DOMContentLoaded listener of a fresh document: setupMobileMenu, then
\* generatePortfolioContent up to its return from the cache or to the await.
DOMContentLoaded ==
    /\ pc \in {"unloaded", "done", "escaped"}
    /\ \E r \in {CacheStep(cache, InitialDom)} :
         /\ cache' = r.cache
         /\ dom' = r.dom
         /\ cacheStep' = r.outcome
         /\ rendered' = r.rendered
         /\ log' = IF r.returned \/ r.escaped THEN r.log ELSE Append(r.log, "generateContent")
         /\ pc' = IF r.escaped THEN "escaped" ELSE IF r.returned THEN "done" ELSE "awaiting"
    /\ failure' = "none"
    /\ cache0' = cache
    /\ prevSrc' = rendered.src
    /\ sinceRemote' = lastRemote.set
    /\ isActive' = FALSE
    /\ navActive' = FALSE
    /\ ariaExpanded' \in MarkupAria
    /\ menuEvent' = "none"
    /\ UNCHANGED <<lastRemote, input, output>>

\* The awaited generateContent call settles and the rest of the function runs.
RemoteSettled ==
    /\ pc = "awaiting"
    /\ \E reply \in RemoteReplies, quota \in BOOLEAN :
         \E r \in {RemoteStep(cache, dom, reply, quota)} :
           /\ cache' = r.cache
           /\ dom' = r.dom
           /\ failure' = r.failure
           /\ rendered' = r.rendered
           /\ log' = log \o r.log
           /\ pc' = IF r.escaped THEN "escaped" ELSE "done"
           /\ lastRemote' = IF r.failure = "none"
                            THEN [set |-> TRUE, dom |-> r.dom, cache |-> r.cache]
                            ELSE lastRemote
           /\ sinceRemote' = IF r.failure = "none" THEN FALSE ELSE sinceRemote
    /\ UNCHANGED <<cache0, prevSrc, cacheStep, isActive, ariaExpanded, navActive, menuEvent,
                   input, output>>

\* A click on the hamburger button (its listener is installed by the page load).
HamburgerClick ==
    /\ pc # "unloaded"
    /\ \E m \in {HamburgerToggle(Menu)} :
         /\ isActive' = m.isActive
         /\ ariaExpanded' = m.ariaExpanded
         /\ navActive' = m.navActive
    /\ menuEvent' = "hamburger"
    /\ UNCHANGED <<resolverVars, input, output>>

\* A click on a link of the nav list: scroll to the target, then closeMenu.
NavLinkClick ==
    /\ pc # "unloaded"
    /\ \E m \in {closeMenu(Menu)} :
         /\ isActive' = m.isActive
         /\ ariaExpanded' = m.ariaExpanded
         /\ navActive' = m.navActive
    /\ menuEvent' = "navLink"
    /\ UNCHANGED <<resolverVars, input, output>>

Next == DOMContentLoaded \/ RemoteSettled \/ HamburgerClick \/ NavLinkClick

Spec == Init /\ [][Next]_vars

\* The function resumes after the await: the step that takes it on from
\* "awaiting". Under Next these are exactly the RemoteSettled steps.
AwaitResumes == pc = "awaiting" /\ pc' \in {"done", "escaped"}

\* The remote call is a promise the runtime settles, by resolving it or by
\* rejecting it, and the function then resumes.
FairSpec == Spec /\ WF_pc(AwaitResumes)

\* Every step that leaves "awaiting" is a RemoteSettled step.
ResumesOnlyBySettling == [][AwaitResumes => RemoteSettled]_vars

---------------------------------------------------------------------------
(* parseGeminiJson on every text of up to MaxLen lexemes *)

MaxLen == 6

FenceAlphabet == {FENCE, JSONWORD, SP, QUOTE, LBRACE, RBRACE}

FenceInit ==
    /\ input = <<>>
    /\ output = NotCalled
    /\ cache = Absent
    /\ dom = InitialDom
    /\ pc = "unloaded"
    /\ log = <<>>
    /\ cache0 = cache
    /\ prevSrc = "none"
    /\ cacheStep = "none"
    /\ failure = "none"
    /\ rendered = NoData
    /\ lastRemote = NoRemote
    /\ sinceRemote = FALSE
    /\ isActive = FALSE
    /\ ariaExpanded = "absent"
    /\ navActive = FALSE
    /\ menuEvent = "none"

\* The text grows by one lexeme.
Extend ==
    /\ ~output.called
    /\ Len(input) < MaxLen
    /\ \E x \in FenceAlphabet : input' = Append(input, x)
    /\ UNCHANGED <<output, resolverVars, menuVars>>

\* parseGeminiJson(input) is called.
Call ==
    /\ ~output.called
    /\ \E r \in {parseGeminiJson(input)} :
         output' = [called |-> TRUE, ok |-> r.ok, val |-> r.val]
    /\ UNCHANGED <<input, resolverVars, menuVars>>

FenceNext == Extend \/ Call

FenceSpec == FenceInit /\ [][FenceNext]_vars

---------------------------------------------------------------------------
(* What the claims talk about *)

InLog(e) == \E n \in 1..Len(log) : log[n] = e
Count(e) == Cardinality({n \in 1..Len(log) : log[n] = e})
StartsWith(events) == Len(log) >= Len(events) /\ SubSeq(log, 1, Len(events)) = events
Loaded == pc # "unloaded"

\* What the page shows for an object of the PortfolioContent shape: the
\* biography as text, one card per skill, one card per project, the live
\* link only for a liveUrl that is not empty.
ViewOf(v) ==
    LET skills == Get(v, "skills").a
        projects == Get(v, "projects").a
    IN [biography |-> Get(v, "biography").s,
        skills |-> [i \in 1..Len(skills) |->
                      [h3 |-> Get(skills[i].val, "skillName").s,
                       p |-> Get(skills[i].val, "description").s]],
        projects |-> [i \in 1..Len(projects) |->
                      [h3 |-> Get(projects[i].val, "projectName").s,
                       p |-> Get(projects[i].val, "description").s,
                       tech |-> [j \in 1..Len(Get(projects[i].val, "technologies").a) |->
                                   Get(projects[i].val, "technologies").a[j].val.s],
                       github |-> Get(projects[i].val, "githubUrl").s,
                       live |-> IF Get(projects[i].val, "liveUrl").s = <<>>
                                THEN [shown |-> FALSE, href |-> <<>>]
                                ELSE [shown |-> TRUE, href |-> Get(projects[i].val, "liveUrl").s]]]]

NoPlaceholderLeft ==
    /\ dom.biography # InitialDom.biography
    /\ \A n \in 1..Len(dom.skills) : dom.skills[n].h3 # <<"placeholder">>
    /\ \A n \in 1..Len(dom.projects) : dom.projects[n].h3 # <<"placeholder">>

Cached0 == JSONparse(cache0.text)
\* The entry this page load found holds a text that is not valid JSON.
CachedUnparseable == cache0.present /\ ~Cached0.ok
\* The entry this page load found parses, and rendering the value throws.
CachedRenderThrows ==
    /\ cache0.present
    /\ Cached0.ok
    /\ populatePortfolioContent(InitialDom, Cached0.val).threw

\* C1: a page load that finds valid JSON of the PortfolioContent shape in the
\* cache is done at once, shows exactly that object, and has made no remote call.
C1_ValidCacheRenderedNoRemote ==
    (Loaded /\ cache0.present /\ Cached0.ok /\ MatchesShape(Cached0.val)) =>
        /\ pc = "done"
        /\ Count("generateContent") = 0
        /\ rendered = [src |-> "cache", data |-> Cached0.val]
        /\ dom = ViewOf(Cached0.val)

C1_Witness ==
    /\ pc = "done"
    /\ cache0 = Stored(ProjectsText)
    /\ Len(dom.projects) = 2
    /\ dom.projects[1].live.shown
    /\ ~dom.projects[2].live.shown

\* C2 as claimed: a page load that finds an entry whose text is not valid JSON
\* removes the entry and then issues exactly one remote call.
C2_UnparseableCacheDeletedThenRemote ==
    (Loaded /\ CachedUnparseable) =>
        /\ StartsWith(<<"getItem", "removeItem", "generateContent">>)
        /\ Count("generateContent") = 1
        /\ pc = "awaiting" => cache = Absent

\* C2 amended: that holds for an entry whose text is not empty; an entry holding
\* the empty text is treated as no entry: it is left in place, and the remote
\* call is issued all the same.
C2_NonEmptyUnparseableCacheDeleted ==
    (Loaded /\ CachedUnparseable) =>
        /\ Count("generateContent") = 1
        /\ IF cache0.text # <<>>
           THEN /\ StartsWith(<<"getItem", "removeItem", "generateContent">>)
                /\ pc = "awaiting" => cache = Absent
           ELSE /\ StartsWith(<<"getItem", "generateContent">>)
                /\ Count("removeItem") = 0
                /\ pc = "awaiting" => cache = cache0

C2_Witness ==
    /\ pc = "awaiting"
    /\ cache0 = Stored(NotJsonText)
    /\ cache = Absent
    /\ log = <<"getItem", "removeItem", "generateContent">>

\* C3: when the remote call rejects, its text does not parse, or rendering the
\* parsed response throws, the finished page shows exactly the default content
\* (no card of the response is left) and nothing was written to the cache.
C3_RemoteFailureShowsDefaultNoWrite ==
    (pc = "done" /\ failure \in {"remoteThrew", "parseError", "renderThrew"}) =>
        /\ dom = ViewOf(defaultPortfolioData)
        /\ rendered = [src |-> "default", data |-> defaultPortfolioData]
        /\ Count("setItem") = 0
        /\ Count("setItemThrew") = 0
        /\ cache = IF InLog("removeItem") THEN Absent ELSE cache0

C3_Witness ==
    /\ pc = "done"
    /\ failure = "renderThrew"
    /\ InLog("populateThrew")
    /\ Len(dom.skills) = 6
    /\ Len(dom.projects) = 3

\* C4 as claimed: after a successful remote path the cached text, parsed as
\* JSON, equals the object that was rendered, and it was written after the render.
C4_CachedTextParsesToRenderedObject ==
    (pc = "done" /\ failure = "none" /\ rendered.src = "remote") =>
        /\ cache.present
        /\ JSONparse(cache.text).ok
        /\ JSONparse(cache.text).val = rendered.data
        /\ \E i, j \in 1..Len(log) : i < j /\ log[i] = "populate" /\ log[j] = "setItem"

\* C5 as claimed: when the cached text parses and rendering it throws, the
\* exception escapes the resolver, and neither the remote call nor the default
\* fallback happens in that page load.
C5_CachedRenderErrorEscapes ==
    (Loaded /\ CachedRenderThrows) =>
        /\ pc = "escaped"
        /\ Count("generateContent") = 0
        /\ Count("populateDefault") = 0

\* C5 amended: the render of the cached object runs inside the cache step's
\* try block, so the exception is caught there: the entry is removed, the remote
\* call is issued, and the page load ends with remote or default content.
C5_CachedRenderErrorCaught ==
    (Loaded /\ CachedRenderThrows) =>
        /\ pc \in {"awaiting", "done"}
        /\ StartsWith(<<"getItem", "populateThrew", "removeItem", "generateContent">>)
        /\ Count("generateContent") = 1
        /\ pc = "awaiting" => cache = Absent
        /\ pc = "done" => rendered.src \in {"remote", "default"}

C5_Witness ==
    /\ pc = "done"
    /\ cache0 = Stored(PartialText)
    /\ rendered.src = "default"
    /\ dom = ViewOf(defaultPortfolioData)

\* C6: whatever the cache holds and however the remote call ends, no exception
\* leaves the resolver, a page load that waits for the remote call is
\* eventually done, and a finished page load shows content from the cache, the
\* remote call or the default, with no placeholder left.
C6_AlwaysCompletesWithContent ==
    /\ [](pc # "escaped")
    /\ (pc = "awaiting") ~> (pc = "done")
    /\ [](pc = "done" => (rendered.src \in {"cache", "remote", "default"} /\ NoPlaceholderLeft))

C6_Witness ==
    /\ pc = "done"
    /\ cacheStep = "renderThrew"
    /\ failure = "renderThrew"
    /\ rendered.src = "default"

\* C7 as claimed: the entry is removed only when parsing its text throws.
C7_DeletedOnlyOnParseError ==
    [][(cache.present /\ ~cache'.present) => ~JSONparse(cache.text).ok]_vars

\* C7 amended: the entry is removed only when parsing its text throws or
\* rendering the parsed value throws; a text that parses and renders is kept.
C7_DeletedOnlyOnParseOrRenderError ==
    [][(cache.present /\ ~cache'.present) =>
          \/ ~JSONparse(cache.text).ok
          \/ populatePortfolioContent(InitialDom, JSONparse(cache.text).val).threw]_vars

C7_Witness ==
    /\ cache0 = Stored(NullText)
    /\ cache = Absent
    /\ InLog("removeItem")

FenceText == Trim(input)
\* The fence wraps the whole trimmed text: it opens it and closes it.
Wraps(t) == Len(t) >= 3 /\ t[1] = FENCE /\ t[2] = JSONWORD /\ t[Len(t)] = FENCE
\* The text holds a fenced block, an opening marker and a later closing one.
HasFencedBlock(t) == FirstOpening(t, 1) # 0 /\ FirstAt(t, FirstOpening(t, 1) + 2, FENCE) # 0
FencedInterior(t) ==
    SubSeq(t, FirstOpening(t, 1) + 2, FirstAt(t, FirstOpening(t, 1) + 2, FENCE) - 1)
\* A fenced block with text before its opening marker or after its closing one.
FenceWithTextAround(t) == HasFencedBlock(t) /\ ~Wraps(t)
ResultOf(r) == [called |-> TRUE, ok |-> r.ok, val |-> r.val]
\* The value is, or holds as a key or somewhere below it, a string with a fence in it.
RECURSIVE HoldsFenceString(_)
HoldsFenceString(v) ==
    \/ v.t = "string" /\ \E n \in 1..Len(v.s) : v.s[n] = FENCE
    \/ \E n \in 1..Len(v.a) :
          \/ \E m \in 1..Len(v.a[n].k) : v.a[n].k[m] = FENCE
          \/ HoldsFenceString(v.a[n].val)

\* C8 as claimed: a fence that wraps the whole trimmed text has its interior
\* parsed; with text before or after the fence the whole trimmed text is parsed
\* and the call fails; valid JSON without a wrapping fence is parsed as it is.
C8_FenceAnchoredElseParseError ==
    output.called =>
        /\ Wraps(FenceText) =>
             output = ResultOf(JSONparse(SubSeq(FenceText, 3, Len(FenceText) - 1)))
        /\ FenceWithTextAround(FenceText) => ~output.ok
        /\ (~Wraps(FenceText) /\ JSONparse(FenceText).ok) => output = ResultOf(JSONparse(FenceText))

\* C8 amended: with text before or after the fence the whole trimmed text is
\* parsed, and the call never returns the value inside the fence: it fails,
\* unless the whole text is valid JSON itself, the fence lying inside a string.
C8_FenceAnchoredElseWholeText ==
    output.called =>
        /\ Wraps(FenceText) =>
             output = ResultOf(JSONparse(SubSeq(FenceText, 3, Len(FenceText) - 1)))
        /\ ~Wraps(FenceText) => output = ResultOf(JSONparse(FenceText))
        /\ FenceWithTextAround(FenceText) =>
             /\ JSONparse(FencedInterior(FenceText)).ok =>
                    output # ResultOf(JSONparse(FencedInterior(FenceText)))
             /\ output.ok => HoldsFenceString(output.val)

C8_Witness ==
    /\ output.called
    /\ input = <<SP, QUOTE, FENCE, JSONWORD, FENCE, QUOTE>>
    /\ output.ok
    /\ output.val = VStr(<<FENCE, JSONWORD, FENCE>>)

\* C9 as claimed: once a page load has rendered and cached remote content, every
\* later page load makes no remote call, shows what that load showed and leaves
\* the entry as it is; and the page load after one that fell back to the
\* default issues the remote call again.
C9_RepeatLoadsServedFromCache ==
    /\ sinceRemote =>
         /\ Count("generateContent") = 0
         /\ cache = lastRemote.cache
         /\ pc = "done" => dom = lastRemote.dom
    /\ (Loaded /\ prevSrc = "default") => Count("generateContent") = 1

====
